---- MODULE Spec2Model ----
(***************************************************************************)
(* A model of streamlit_app.py: the Langflow chat front-end.               *)
(*                                                                         *)
(* Two specifications share the module.  ExtractSpec exercises the reply   *)
(* extraction of run_flow (lines 51-79) on a bounded family of HTTP        *)
(* responses.  Spec is the Streamlit session: script runs, Send clicks,    *)
(* the session's conversation history and the HTTP requests issued.        *)
(***************************************************************************)
EXTENDS Integers, Sequences, FiniteSets, TLC

VARIABLES APPLICATION_TOKEN, session_keys, history, lastRun, posts, click,
          response, results

vars == <<APPLICATION_TOKEN, session_keys, history, lastRun, posts, click,
          response, results>>

(***************************************************************************)
(* Python values, as far as the decoded JSON body needs them.              *)
(***************************************************************************)
PyNone == [t |-> "None"]

PyInt(n) == [t |-> "int", n |-> n]

PyStr(s) == [t |-> "str", s |-> s]

PyList(l) == [t |-> "list", l |-> l]

PyDict(d) == [t |-> "dict", d |-> d]

EmptyD == [k \in {} |-> PyNone]

IsStr(v) == v.t = "str"

IsList(v) == v.t = "list"

IsDict(v) == v.t = "dict"

\* Python truth value of v, as used by `if v`, `v and ...`, `v or ...`.
Truthy(v) ==
    CASE v.t = "None" -> FALSE
      [] v.t = "int"  -> v.n # 0
      [] v.t = "str"  -> Len(v.s) > 0
      [] v.t = "list" -> Len(v.l) > 0
      [] v.t = "dict" -> DOMAIN v.d # {}

\* a or b with the operands' priority swapped
PyOrSwapped(a, b) == IF Truthy(b) THEN b ELSE a

\* a or b
PyOr(a, b) == IF Truthy(a) THEN a ELSE b

\* dict.get(key, default); the caller has established IsDict(v).
GetD(v, key, default) == IF key \in DOMAIN v.d THEN v.d[key] ELSE default

\* dict.get(key)
Get(v, key) == GetD(v, key, PyNone)

\* needle in s, for two Python strings
Substring(needle, s) ==
    \E i \in 1..(Len(s) - Len(needle) + 1) :
        SubSeq(s, i, i + Len(needle) - 1) = needle

(***************************************************************************)
(* The result of running a piece of Python: a returned value or a raised   *)
(* exception.                                                              *)
(***************************************************************************)
Return(v) == [k |-> "return", v |-> v]

Raise(e) == [k |-> "raise", e |-> e]

\* What one evaluation of lines 51-79 does: its outcome, whether
\* response.json() was called, and the st.error / st.json calls it made.
Ran(outcome, decoded, display) ==
    [outcome |-> outcome, decoded |-> decoded, display |-> display]

StError(s) == [call |-> "error", arg |-> PyStr(s)]

StJson(v) == [call |-> "json", arg |-> v]

OkStatus == 200

UnexpectedMsg ==
    "Error: Unexpected API response structure. Please check the debug output above."

NoOutputMsg == "No output found. API response structure is unexpected:"

ErrorMsg(status_code, text) ==
    "Error: " \o ToString(status_code) \o " - " \o text

(***************************************************************************)
(* The HTTP response: status_code, the raw body `text`, and `body`, what   *)
(* response.json() yields for that text (NotJson when the text is not a    *)
(* JSON document and json() raises).                                       *)
(***************************************************************************)
NotJson == [t |-> "undecodable"]

Keys == <<"Text", "text", "outputs", "results", "message", "data">>

RECURSIVE Dumps(_), DumpsList(_), DumpsItems(_, _)

\* The JSON text of a value, as the server writes it into the body.
Dumps(v) ==
    CASE v.t = "None" -> "null"
      [] v.t = "int"  -> ToString(v.n)
      [] v.t = "str"  -> "\"" \o v.s \o "\""
      [] v.t = "list" -> "[" \o DumpsList(v.l) \o "]"
      [] v.t = "dict" ->
           "{" \o DumpsItems(v.d, SelectSeq(Keys, LAMBDA k : k \in DOMAIN v.d)) \o "}"

DumpsList(l) ==
    IF l = <<>> THEN ""
    ELSE Dumps(Head(l)) \o (IF Len(l) > 1 THEN ", " ELSE "") \o DumpsList(Tail(l))

DumpsItems(d, ks) ==
    IF ks = <<>> THEN ""
    ELSE "\"" \o Head(ks) \o "\": " \o Dumps(d[Head(ks)])
         \o (IF Len(ks) > 1 THEN ", " ELSE "") \o DumpsItems(d, Tail(ks))

JsonResponse(status_code, v) ==
    [status_code |-> status_code, text |-> Dumps(v), body |-> v]

TextResponse(status_code, text) ==
    [status_code |-> status_code, text |-> text, body |-> NotJson]

(***************************************************************************)
(* run_flow, lines 51-79: from the response to the returned string.        *)
(***************************************************************************)
\* lines 73-75
Unexpected(data) ==
    Ran(Return(PyStr(UnexpectedMsg)), TRUE, <<StError(NoOutputMsg), StJson(data)>>)

\* an exception raised after response.json() succeeded
Raised(e) == Ran(Raise(e), TRUE, <<>>)

\* key in container, for the containers that support `in`
Contains(container, key) ==
    CASE container.t = "dict" -> key \in DOMAIN container.d
      [] container.t = "str"  -> Substring(key, container.s)
      [] container.t = "list" -> \E i \in 1..Len(container.l) : container.l[i] = PyStr(key)

\* lines 70-71
MessageText(data, message) ==
    IF ~IsDict(message) THEN Raised("AttributeError")
    ELSE IF Truthy(Get(message, "text"))
         THEN Ran(Return(Get(message, "text")), TRUE, <<>>)
         ELSE Unexpected(data)

\* lines 65-71
FromMessage(data, message) ==
    IF message.t \in {"None", "int"} THEN Raised("TypeError")
    ELSE IF Contains(message, "data")
         THEN IF ~IsDict(message) THEN Raised("TypeError")
              ELSE LET d == message.d["data"] IN
                   IF IsDict(d) /\ Truthy(Get(d, "text"))
                   THEN Ran(Return(Get(d, "text")), TRUE, <<>>)
                   ELSE MessageText(data, message)
         ELSE MessageText(data, message)

\* lines 62-63
FromNested(data, nested_outputs) ==
    LET first == nested_outputs.l[1] IN
    IF ~IsDict(first) THEN Raised("AttributeError")
    ELSE LET results_ == GetD(first, "results", PyDict(EmptyD)) IN
         IF ~IsDict(results_) THEN Raised("AttributeError")
         ELSE FromMessage(data, GetD(results_, "message", PyDict(EmptyD)))

\* lines 60-61
FromOutputs(data, outputs) ==
    LET first == outputs.l[1] IN
    IF ~IsDict(first) THEN Raised("AttributeError")
    ELSE LET nested_outputs == Get(first, "outputs") IN
         IF Truthy(nested_outputs) /\ IsList(nested_outputs) /\ Len(nested_outputs.l) > 0
         THEN FromNested(data, nested_outputs)
         ELSE Unexpected(data)

\* lines 54-75
ExtractData(data) ==
    IF ~IsDict(data) THEN Raised("AttributeError")
    ELSE LET output == PyOr(Get(data, "Text"), Get(data, "text")) IN
         IF Truthy(output) THEN Ran(Return(output), TRUE, <<>>)
         ELSE LET outputs == Get(data, "outputs") IN
              IF Truthy(outputs) /\ IsList(outputs) /\ Len(outputs.l) > 0
              THEN FromOutputs(data, outputs)
              ELSE Unexpected(data)

\* line 51 accepting every 2xx status
IsOkAny2xx(status_code) == status_code >= OkStatus /\ status_code < OkStatus + 100

\* line 51
IsOk(status_code) == status_code = OkStatus

\* lines 51-79
Extract(resp) ==
    IF IsOk(resp.status_code)
    THEN IF resp.body = NotJson THEN Raised("JSONDecodeError")
         ELSE ExtractData(resp.body)
    ELSE LET error_msg == ErrorMsg(resp.status_code, resp.text) IN
         Ran(Return(PyStr(error_msg)), FALSE, <<StError(error_msg)>>)

(***************************************************************************)
(* The bounded family of responses.  The decoded bodies follow the path    *)
(* run_flow walks, data.outputs[0].outputs[0].results.message.data.text,   *)
(* and put at every level of it the value run_flow expects, a value of     *)
(* another type, or nothing.                                               *)
(***************************************************************************)
Opt(key, values) == {EmptyD} \cup {key :> v : v \in values}

Leaves == {PyNone, PyInt(0), PyInt(5), PyStr(""), PyStr("a"), PyStr("b")}

DataVals == {PyNone, PyStr("zz")} \cup {PyDict(d) : d \in Opt("text", Leaves)}

MessageVals ==
    {PyNone, PyInt(5), PyStr("zz"), PyStr("no data"), PyList(<<>>), PyList(<<PyStr("data")>>)}
    \cup {PyDict(a @@ b) : a \in Opt("data", DataVals), b \in Opt("text", Leaves)}

ResultsVals ==
    {PyNone, PyStr("zz"), PyList(<<>>)} \cup {PyDict(d) : d \in Opt("message", MessageVals)}

InnerVals ==
    {PyNone, PyInt(5), PyStr("zz")} \cup {PyDict(d) : d \in Opt("results", ResultsVals)}

NestedOutputsVals ==
    {PyNone, PyStr("zz"), PyList(<<>>), PyDict("text" :> PyStr("a"))}
    \cup {PyList(<<i>>) : i \in InnerVals}
    \cup {PyList(<<PyDict(EmptyD), PyDict("results" :> PyDict("message" :> PyDict("text" :> PyStr("b"))))>>)}

ElemVals ==
    {PyNone, PyInt(5), PyStr("zz"), PyList(<<>>)}
    \cup {PyDict(d) : d \in Opt("outputs", NestedOutputsVals)}

OutputsVals ==
    {PyNone, PyStr("zz"), PyList(<<>>), PyDict("text" :> PyStr("a"))}
    \cup {PyList(<<e>>) : e \in ElemVals}

Payloads ==
    {PyNone, PyInt(5), PyStr("a"), PyList(<<>>), PyList(<<PyDict("Text" :> PyStr("a"))>>)}
    \cup {PyDict(a @@ b @@ c) :
            a \in Opt("Text", Leaves), b \in Opt("text", Leaves), c \in Opt("outputs", OutputsVals)}

Statuses == {200, 201, 404}

NonJsonTexts == {"", "<html>Bad Gateway</html>"}

Responses ==
    {JsonResponse(sc, v) : sc \in Statuses, v \in Payloads}
    \cup {TextResponse(sc, t) : sc \in Statuses, t \in NonJsonTexts}

(***************************************************************************)
(* Session state.                                                          *)
(***************************************************************************)
Entry(role, text) == [role |-> role, text |-> text]

NoClick == [k |-> "none"]

NoResponse == [k |-> "none"]

MaxCalls == 2

(***************************************************************************)
(* ExtractSpec: run_flow holds a response (line 50 has returned) and       *)
(* lines 51-79 are applied to it, MaxCalls times over.                     *)
(***************************************************************************)
ExtractInit ==
    /\ APPLICATION_TOKEN = PyStr("tok")
    /\ session_keys = {"history"}
    /\ history = <<Entry("user", PyStr("hi"))>>
    /\ lastRun = "in_run_flow"
    /\ posts = 1
    /\ click = NoClick
    /\ response \in Responses
    /\ results = <<>>

\* lines 51-79 reading the reply with data.pop("Text") instead of data.get("Text")
ExtractStepPop ==
    /\ lastRun = "in_run_flow"
    /\ Len(results) < MaxCalls
    /\ results' = Append(results, Extract(response))
    /\ response' =
         IF IsOk(response.status_code) /\ response.body # NotJson /\ IsDict(response.body)
         THEN [response EXCEPT !.body =
                 PyDict([k \in DOMAIN response.body.d \ {"Text"} |-> response.body.d[k]])]
         ELSE response
    /\ UNCHANGED <<APPLICATION_TOKEN, session_keys, history, lastRun, posts, click>>

ExtractStep ==
    /\ lastRun = "in_run_flow"
    /\ Len(results) < MaxCalls
    /\ results' = Append(results, Extract(response))
    /\ UNCHANGED <<APPLICATION_TOKEN, session_keys, history, lastRun, posts, click, response>>

ExtractNext == ExtractStep

ExtractSpec == ExtractInit /\ [][ExtractNext]_vars

(***************************************************************************)
(* The candidate reply fields of a decoded body, read as JSON paths: a     *)
(* field is Absent when the path to it does not exist in the document.     *)
(***************************************************************************)
Absent == [t |-> "absent"]

Field(v, key) == IF IsDict(v) /\ key \in DOMAIN v.d THEN v.d[key] ELSE Absent

Elem0(v) == IF IsList(v) /\ Len(v.l) > 0 THEN v.l[1] ELSE Absent

MessageOf(p) ==
    Field(Field(Elem0(Field(Elem0(Field(p, "outputs")), "outputs")), "results"), "message")

\* Text; text; outputs[0].outputs[0].results.message.data.text; ...message.text
Cand(p) ==
    << Field(p, "Text"), Field(p, "text"),
       Field(Field(MessageOf(p), "data"), "text"), Field(MessageOf(p), "text") >>

NonEmptyStr(v) == IsStr(v) /\ v.s # ""

WellTyped(p) == IsDict(p) /\ \A c \in 1..4 : Cand(p)[c] = Absent \/ NonEmptyStr(Cand(p)[c])

FirstPresent(p) ==
    Cand(p)[CHOOSE c \in 1..4 : Cand(p)[c] # Absent /\ \A b \in 1..(c - 1) : Cand(p)[b] = Absent]

\* the response in hand is a 200 whose body decoded
Decoded200 == response.status_code = 200 /\ response.body # NotJson

(***************************************************************************)
(* C1: for a 200 response whose body is a JSON object in which each of the *)
(* four candidate fields is absent or a non-empty string, run_flow returns *)
(* the first candidate present in the order Text, text, message.data.text, *)
(* message.text; never a lower-priority one.                               *)
(***************************************************************************)
FirstPresentReturned ==
    \A i \in 1..Len(results) :
        ( /\ Decoded200
          /\ WellTyped(response.body)
          /\ \E c \in 1..4 : Cand(response.body)[c] # Absent )
        => results[i].outcome = Return(FirstPresent(response.body))

\* Text is absent, the three other candidates are present, and the
\* top-level text was returned, not one of the nested fields.
FirstPresentWitness ==
    /\ Len(results) > 0
    /\ Decoded200
    /\ WellTyped(response.body)
    /\ Cand(response.body)[1] = Absent
    /\ Cand(response.body)[2] = PyStr("a")
    /\ Cand(response.body)[3] = PyStr("b")
    /\ Cand(response.body)[4] = PyStr("a")
    /\ results[1].outcome = Return(PyStr("a"))

(***************************************************************************)
(* C4: for a response whose status is not 200, run_flow returns            *)
(* "Error: <status code> - <raw body text>" and does not decode the body,  *)
(* whatever the body contains.                                             *)
(***************************************************************************)
Non200IsErrorString ==
    \A i \in 1..Len(results) :
        response.status_code # 200
        => /\ results[i].outcome =
                Return(PyStr("Error: " \o ToString(response.status_code) \o " - " \o response.text))
           /\ ~results[i].decoded

\* A 201 whose body is a well-formed reply has been answered with the error string.
Non200Witness ==
    /\ Len(results) > 0
    /\ response.status_code = 201
    /\ response.body = PyDict("Text" :> PyStr("a"))
    /\ results[1].outcome = Return(PyStr("Error: 201 - {\"Text\": \"a\"}"))

NoRuleMatches(p) == \A c \in 1..4 : Cand(p)[c] = Absent

UnmatchedIsUnexpected ==
    \A i \in 1..Len(results) :
        (Decoded200 /\ NoRuleMatches(response.body))
        => results[i].outcome = Return(PyStr(UnexpectedMsg))

(***************************************************************************)
(* C3: a candidate field of the wrong type counts as absent: for every     *)
(* decoded body of a 200 response run_flow returns the first candidate     *)
(* that is a non-empty string, or the unrecognized-shape string when there *)
(* is none; it neither raises nor returns a value that is not a string.    *)
(***************************************************************************)
StrictReply(p) ==
    IF \E c \in 1..4 : NonEmptyStr(Cand(p)[c])
    THEN Cand(p)[CHOOSE c \in 1..4 :
                    NonEmptyStr(Cand(p)[c]) /\ \A b \in 1..(c - 1) : ~NonEmptyStr(Cand(p)[b])]
    ELSE PyStr(UnexpectedMsg)

WrongTypeIsAbsent ==
    \A i \in 1..Len(results) :
        Decoded200 => results[i].outcome = Return(StrictReply(response.body))

(***************************************************************************)
(* C9: an empty string in a candidate field is the same as no field.       *)
(* Removing a candidate field that holds "" does not change what run_flow  *)
(* returns; {"Text": "", "text": t} returns t; and a body whose only       *)
(* candidate field is an empty string gets the unrecognized-shape string.  *)
(***************************************************************************)
DelKey(v, key) == PyDict([k \in DOMAIN v.d \ {key} |-> v.d[k]])

SetKey(v, key, x) == PyDict([k \in DOMAIN v.d |-> IF k = key THEN x ELSE v.d[k]])

SetHead(v, x) == PyList(<<x>> \o Tail(v.l))

\* the body p with its results.message replaced by m
WithMessage(p, m) ==
    LET outputs == p.d["outputs"]
        first   == outputs.l[1]
        nested  == first.d["outputs"]
        inner   == nested.l[1]
        res     == inner.d["results"]
    IN SetKey(p, "outputs",
         SetHead(outputs,
           SetKey(first, "outputs",
             SetHead(nested, SetKey(inner, "results", SetKey(res, "message", m))))))

\* the body p without its candidate field c, which exists in p
WithoutCand(p, c) ==
    CASE c = 1 -> DelKey(p, "Text")
      [] c = 2 -> DelKey(p, "text")
      [] c = 3 -> WithMessage(p, SetKey(MessageOf(p), "data",
                                        DelKey(MessageOf(p).d["data"], "text")))
      [] c = 4 -> WithMessage(p, DelKey(MessageOf(p), "text"))

EmptyLikeMissing(p, outcome) ==
    \A c \in 1..4 :
        Cand(p)[c] = PyStr("")
        => Extract(JsonResponse(200, WithoutCand(p, c))).outcome = outcome

EmptyTextThenText(p, outcome) ==
    \A t \in {"a", "b"} :
        p = PyDict(("Text" :> PyStr("")) @@ ("text" :> PyStr(t))) => outcome = Return(PyStr(t))

OnlyEmptyIsUnexpected(p, outcome) ==
    (\E c \in 1..4 : Cand(p)[c] = PyStr("") /\ \A b \in (1..4) \ {c} : Cand(p)[b] = Absent)
    => outcome = Return(PyStr(UnexpectedMsg))

EmptyStringIsAbsent ==
    \A i \in 1..Len(results) :
        Decoded200
        => /\ EmptyLikeMissing(response.body, results[i].outcome)
           /\ EmptyTextThenText(response.body, results[i].outcome)
           /\ OnlyEmptyIsUnexpected(response.body, results[i].outcome)

(***************************************************************************)
(* The Streamlit session: every page load, rerun or widget interaction     *)
(* runs the script from its first line.                                    *)
(***************************************************************************)
\* line 28 testing only for an unset variable
TokenIsNone(token) == token = PyNone

\* line 28: not APPLICATION_TOKEN
TokenMissing(token) == ~Truthy(token)

Whitespace == {" ", "\t", "\n"}

RECURSIVE LStrip(_), RStrip(_)

LStrip(s) ==
    IF Len(s) > 0 /\ SubSeq(s, 1, 1) \in Whitespace THEN LStrip(SubSeq(s, 2, Len(s))) ELSE s

RStrip(s) ==
    IF Len(s) > 0 /\ SubSeq(s, Len(s), Len(s)) \in Whitespace
    THEN RStrip(SubSeq(s, 1, Len(s) - 1)) ELSE s

\* str.strip()
Strip(s) == RStrip(LStrip(s))

\* lines 96-97 resetting the history on every run
InitHistoryAlways(keys, h) == <<>>

\* lines 96-97: the history list main() works on
InitHistory(keys, h) == IF "history" \in keys THEN h ELSE <<>>

\* what line 50 does: the server answers, or requests.post raises
Net(resps) ==
    {[k |-> "response", r |-> r] : r \in resps} \cup {[k |-> "error", e |-> "ConnectionError"]}

Request(user_message) ==
    [input_value |-> user_message, output_type |-> "chat", input_type |-> "chat"]

\* run_flow issuing the request again when the first answer is not a 200
RunFlowRetry(user_message, net) ==
    IF net.k = "error"
    THEN [ran |-> Ran(Raise(net.e), FALSE, <<>>), posts |-> 1, request |-> Request(user_message)]
    ELSE [ran |-> Extract(net.r),
          posts |-> IF IsOk(net.r.status_code) THEN 1 ELSE 2,
          request |-> Request(user_message)]

\* run_flow, lines 35-79: one POST, then the extraction
RunFlow(user_message, net) ==
    IF net.k = "error"
    THEN [ran |-> Ran(Raise(net.e), FALSE, <<>>), posts |-> 1, request |-> Request(user_message)]
    ELSE [ran |-> Extract(net.r), posts |-> 1, request |-> Request(user_message)]

MaxTurns == 2

Inputs == {"", " \n", "hi", " yo\n"}

Tokens == {PyNone, PyStr(""), PyStr("tok")}

NestedReply(m) ==
    PyDict("outputs" :> PyList(<<PyDict("outputs" :>
        PyList(<<PyDict("results" :> PyDict("message" :> m))>>))>>))

SessionResponses ==
    { JsonResponse(200, PyDict("Text" :> PyStr("a"))),
      JsonResponse(200, NestedReply(PyDict("data" :> PyDict("text" :> PyStr("b"))))),
      JsonResponse(200, PyDict(EmptyD)),
      JsonResponse(200, PyDict("outputs" :> PyList(<<PyNone>>))),
      TextResponse(200, "<html>Bad Gateway</html>"),
      JsonResponse(404, PyDict("Text" :> PyStr("a"))),
      TextResponse(404, "") }

UserTurns(h) == Cardinality({i \in 1..Len(h) : h[i].role = "user"})

Init ==
    /\ APPLICATION_TOKEN \in Tokens
    /\ session_keys = {}
    /\ history = <<>>
    /\ lastRun = "none"
    /\ posts = 0
    /\ click = NoClick
    /\ response = NoResponse
    /\ results = <<>>

\* lines 28-29: the script stops at the ValueError, main() is not reached
ScriptAbort ==
    /\ TokenMissing(APPLICATION_TOKEN)
    /\ lastRun' = "aborted"
    /\ UNCHANGED <<APPLICATION_TOKEN, session_keys, history, posts, click, response, results>>

\* a script run in which st.button("Send") is False: lines 94-132
Render ==
    /\ ~TokenMissing(APPLICATION_TOKEN)
    /\ session_keys' = session_keys \cup {"history"}
    /\ history' = InitHistory(session_keys, history)
    /\ lastRun' = "rendered"
    /\ UNCHANGED <<APPLICATION_TOKEN, posts, click, response, results>>

\* a page with the Send button is on screen
PageShown == lastRun \in {"rendered", "warning", "raised"}

\* Send clicked with nothing but whitespace typed: lines 133, 143-144
SendBlank ==
    \E user_input \in Inputs :
        /\ PageShown
        /\ ~TokenMissing(APPLICATION_TOKEN)
        /\ ~Truthy(PyStr(Strip(user_input)))
        /\ session_keys' = session_keys \cup {"history"}
        /\ history' = InitHistory(session_keys, history)
        /\ lastRun' = "warning"
        /\ click' = [k |-> "blank", input |-> user_input, posts |-> 0]
        /\ UNCHANGED <<APPLICATION_TOKEN, posts, response, results>>

\* Send clicked with a message typed: lines 133-142, and the rerun of line
\* 142 when run_flow returned
Send ==
    \E user_input \in Inputs, net \in Net(SessionResponses) :
        /\ PageShown
        /\ ~TokenMissing(APPLICATION_TOKEN)
        /\ Truthy(PyStr(Strip(user_input)))
        /\ UserTurns(history) < MaxTurns
        /\ LET h0 == InitHistory(session_keys, history)
               h1 == Append(h0, Entry("user", PyStr(user_input)))
               rf == RunFlow(user_input, net)
           IN /\ session_keys' = session_keys \cup {"history"}
              /\ posts' = posts + rf.posts
              /\ response' = IF net.k = "response" THEN net.r ELSE NoResponse
              /\ click' = [k |-> "send", input |-> user_input, posts |-> rf.posts,
                           outcome |-> rf.ran.outcome]
              /\ IF rf.ran.outcome.k = "return"
                 THEN /\ history' = Append(h1, Entry("bot", rf.ran.outcome.v))
                      /\ lastRun' = "rendered"
                 ELSE /\ history' = h1
                      /\ lastRun' = "raised"
        /\ UNCHANGED <<APPLICATION_TOKEN, results>>

Next == ScriptAbort \/ Render \/ SendBlank \/ Send

Spec == Init /\ [][Next]_vars

(***************************************************************************)
(* C5: the conversation history is append-only: across page renders and    *)
(* Send clicks the history before a step is a prefix of the history after  *)
(* it, so no entry is changed, moved or removed.                           *)
(***************************************************************************)
IsPrefix(h, g) == Len(h) <= Len(g) /\ SubSeq(g, 1, Len(h)) = h

HistoryAppendOnly == [][IsPrefix(history, history')]_vars

\* Two turns are in the history and the page has been rendered on top of them.
TwoTurnsWitness ==
    /\ Len(history) = 4
    /\ lastRun = "rendered"
    /\ history[1].role = "user" /\ history[2].role = "bot"
    /\ history[3].role = "user" /\ history[4].role = "bot"

MissingTokenIsFatal ==
    APPLICATION_TOKEN \in {PyNone, PyStr("")}
    => /\ lastRun \in {"none", "aborted"}
       /\ session_keys = {}
       /\ history = <<>>
       /\ posts = 0
       /\ click = NoClick

\* The script ran with an empty token and aborted.
EmptyTokenAbortedWitness == APPLICATION_TOKEN = PyStr("") /\ lastRun = "aborted"

(***************************************************************************)
(* C10: after any sequence of Send clicks, with any API outcome, the       *)
(* history has even length, roles alternate user, bot, and no user entry   *)
(* is left without its bot entry.                                          *)
(***************************************************************************)
HistoryPaired ==
    /\ Len(history) % 2 = 0
    /\ \A i \in 1..Len(history) :
          history[i].role = IF i % 2 = 1 THEN "user" ELSE "bot"

====
